---- MODULE Spec2Model ----
(***************************************************************************)
(* ANS Registry: the registration state machine (routes.ts, kept as        *)
(* src/unnamed/part_002), its SQLite store (src/src/database.ts) and the   *)
(* certificate authority (src/src/ca.ts).                                  *)
(*                                                                         *)
(* Every HTTP request is an async handler.  The code between two `await`s  *)
(* runs without interruption on the Node event loop, so one action of the  *)
(* model is: the awaited statement completes (the SQL statement executes,  *)
(* or the openssl child exits) and the handler's continuation runs up to   *)
(* the next `await` or to its response.  Handlers of different requests    *)
(* interleave at these points.                                             *)
(*                                                                         *)
(* Spec is the register and verify-dns handlers and the clock; SpecDns     *)
(* adds the registrants' DNS zones, SpecLog a client polling the log's     *)
(* checkpoint, and SpecCA is ca.ts taken by itself: initCA and             *)
(* issueIdentityCertificate with their files and child processes.          *)
(***************************************************************************)
EXTENDS Integers, Sequences, FiniteSets, TLC

\* ---------------------------------------------------------------- bounds
\* Requests served, clock ticks, and the size of the hash space.
MaxReqs == 3
MaxTime == 1
MaxHash == 1
\* Invocations of initCA and calls of issueIdentityCertificate.
MaxInits == 2
MaxCalls == 2
\* Register and verify-dns requests served while the checkpoint is polled.
MaxLogReqs == 2

\* ------------------------------------------------------ program constants
\* routes.ts:37  Date.now() + 3600000; one clock unit of the model is 1 hour.
ChallengeTTL == 1

Reqs == 1 .. MaxReqs
Inits == 1 .. MaxInits
Calls == 1 .. MaxCalls
\* uuidv4(): a fresh identifier per registration; slot r's call yields r.
AgentIds == Reqs
uuidv4(r) == r
\* randomBytes(16): 128 fresh random bits per registration; slot r's call
\* yields r.
NewToken(r) == r
\* randomBytes(32): a value of the hash space; 0 is '0'.repeat(64).
HashValues == 0 .. MaxHash
GenesisHash == 0

\* SQL NULL in the identityCertPEM column, JS undefined for a missing row.
NullPEM == [null |-> TRUE]
NoRow == [undefined |-> TRUE]

\* Request bodies: "" stands for a missing or empty field (falsy in JS).
DisplayNames == {"", "Bot"}
Versions == {"", "1"}
Hosts == {"", "a", "b"}
Csrs == {"", "csr"}
\* A body lacks at most one of the four fields: each condition of the check
\* at routes.ts:15 is met alone, and a body that lacks several fields takes
\* the same branch as one that lacks the first of them.
RegisterBodies ==
  {b \in [agentDisplayName : DisplayNames, version : Versions,
          agentHost : Hosts, identityCsrPEM : Csrs] :
     Cardinality({f \in DOMAIN b : b[f] = ""}) <= 1}

VARIABLES
  agents,      \* table agents, in rowid order
  challenges,  \* table validation_challenges, in rowid order
  log,         \* table transparency_log, in rowid order
  now,         \* the wall clock (Date.now())
  serial,      \* the CA's serial file (openssl -CAcreateserial)
  txt,         \* DNS: the <<record name, value>> TXT records published
  pc,          \* per request: the await the handler is suspended at
  body,        \* per request: req.body / req.params
  local,       \* per request: the handler's local variables
  res,         \* per request: the response sent (status, JSON body, message logged)
  cpPc,        \* GET /v1/log/checkpoint: the await the handler is suspended at
  cpLocal,     \* GET /v1/log/checkpoint: the handler's local variables
  cpRes,       \* GET /v1/log/checkpoint: the latest response sent
  ca,          \* the files root-ca.key and root-ca.crt (0: no such file)
  tmp,         \* the files of the directory tmp, by name
  initPc,      \* per initCA invocation: the await it is suspended at
  caPc,        \* per issueIdentityCertificate call: where it is suspended
  caLocal,     \* per issueIdentityCertificate call: arguments and locals
  caRet        \* per issueIdentityCertificate call: the value returned

store == <<agents, challenges, log>>
cpvars == <<cpPc, cpLocal, cpRes>>
cavars == <<ca, tmp, initPc, caPc, caLocal, caRet>>
vars == <<agents, challenges, log, now, serial, txt, pc, body, local, res,
          cpvars, cavars>>

\* A handler that has not started, or has returned, holds nothing.
NoBody == [kind |-> "none"]
NoLocal == [kind |-> "none"]
NoRes == [status |-> 0]
NoRet == [kind |-> "none"]

Init ==
  /\ agents = <<>>
  /\ challenges = <<>>
  /\ log = <<>>
  /\ now = 0
  /\ serial = 1
  /\ txt = {}
  /\ pc = [r \in Reqs |-> "idle"]
  /\ body = [r \in Reqs |-> NoBody]
  /\ local = [r \in Reqs |-> NoLocal]
  /\ res = [r \in Reqs |-> NoRes]
  /\ cpPc = "idle"
  /\ cpLocal = NoLocal
  /\ cpRes = NoRes
  /\ ca = [key |-> 0, cert |-> 0]
  /\ tmp = {}
  /\ initPc = [p \in Inits |-> "idle"]
  /\ caPc = [c \in Calls |-> "idle"]
  /\ caLocal = [c \in Calls |-> NoLocal]
  /\ caRet = [c \in Calls |-> NoRet]

\* ------------------------------------------------------------- helpers

\* routes.ts:24
AnsName(version, agentHost) == "ans://v" \o version \o "." \o agentHost

\* routes.ts:58
ChallengeRecordName(agentHost) == "_ans-challenge." \o agentHost

\* routes.ts:15  (!agentDisplayName || !version || !agentHost || !identityCsrPEM)
MissingRequired(b) ==
  \/ b.agentDisplayName = ""
  \/ b.version = ""
  \/ b.agentHost = ""
  \/ b.identityCsrPEM = ""

\* db.get: the first of the matching rowids, 0 for none.
FirstRow(matching) ==
  IF matching = {} THEN 0
  ELSE CHOOSE i \in matching : \A j \in matching : i <= j

\* Variant: the existence query compares the wrong column.
SelectAgentByAnsNameWrongColumn(n) ==
  LET i == FirstRow({k \in 1 .. Len(agents) : agents[k].agentHost = n})
  IN IF i = 0 THEN NoRow ELSE agents[i]

\* SELECT * FROM agents WHERE ansName = ?
SelectAgentByAnsName(n) ==
  LET i == FirstRow({k \in 1 .. Len(agents) : agents[k].ansName = n})
  IN IF i = 0 THEN NoRow ELSE agents[i]

\* SELECT * FROM agents WHERE agentId = ?
SelectAgentById(id) ==
  LET i == FirstRow({k \in 1 .. Len(agents) : agents[k].agentId = id})
  IN IF i = 0 THEN NoRow ELSE agents[i]

\* agentId TEXT UNIQUE NOT NULL, ansName TEXT UNIQUE NOT NULL
AgentsUniqueOk(row) ==
  \A i \in 1 .. Len(agents) :
    agents[i].agentId # row.agentId /\ agents[i].ansName # row.ansName

\* The slots are interchangeable: a request takes the lowest free one.
FreeSlot(r) == pc[r] = "idle" /\ \A s \in 1 .. (r - 1) : pc[s] # "idle"

\* res.status(..).json(..): the handler returns, its locals are gone.
Respond(r, response) ==
  /\ res' = [res EXCEPT ![r] = response]
  /\ pc' = [pc EXCEPT ![r] = "done"]
  /\ body' = [body EXCEPT ![r] = NoBody]
  /\ local' = [local EXCEPT ![r] = NoLocal]

\* catch (error) { console.error(message, error); res.status(500).json(..) }
\* The message printed is kept with the response: the two handlers' 500
\* responses are the same JSON.
Catch(r, message) ==
  Respond(r, [status |-> 500, error |-> "Internal server error",
              logged |-> message])

\* -------------------------------------------- POST /v1/agents/register

\* The handler runs to its first await and the existence query returns:
\* 400 on a missing field, 409 if a row came back, else the token and the
\* expiry are drawn and INSERT INTO agents is awaited.
RegisterGetExisting(r, b) ==
  /\ FreeSlot(r)
  /\ IF MissingRequired(b)
     THEN Respond(r, [status |-> 400, error |-> "Missing required fields"])
     ELSE LET agentId == uuidv4(r)
              ansName == AnsName(b.version, b.agentHost)
              existing == SelectAgentByAnsName(ansName)
          IN IF existing # NoRow
             THEN Respond(r, [status |-> 409,
                              error |-> "Agent with this version and host already exists",
                              ansName |-> ansName])
             ELSE /\ local' = [local EXCEPT ![r] =
                                   [agentId |-> agentId, ansName |-> ansName,
                                    token |-> NewToken(r),
                                    expiresAt |-> now + ChallengeTTL]]
                  /\ pc' = [pc EXCEPT ![r] = "reg_insert_agent"]
                  /\ body' = [body EXCEPT ![r] = b]
                  /\ UNCHANGED res
  /\ UNCHANGED <<store, now, serial, txt, cpvars, cavars>>

\* agentDescription and endpoints are optional, opaque to every handler
\* modelled here and carried unchanged; createdAt and updatedAt default to
\* CURRENT_TIMESTAMP and only updatedAt is ever written again.
NewAgentRow(r) ==
  [agentId |-> local[r].agentId,
   ansName |-> local[r].ansName,
   agentDisplayName |-> body[r].agentDisplayName,
   version |-> body[r].version,
   agentHost |-> body[r].agentHost,
   identityCsrPEM |-> body[r].identityCsrPEM,
   status |-> "PENDING_VALIDATION",
   identityCertPEM |-> NullPEM,
   updatedAt |-> now]

\* INSERT INTO agents executes; a UNIQUE violation rejects the promise and
\* the catch block answers 500.
RegisterInsertAgent(r) ==
  /\ pc[r] = "reg_insert_agent"
  /\ IF AgentsUniqueOk(NewAgentRow(r))
     THEN /\ agents' = Append(agents, NewAgentRow(r))
          /\ pc' = [pc EXCEPT ![r] = "reg_insert_challenge"]
          /\ UNCHANGED <<body, local, res>>
     ELSE /\ Catch(r, "Registration error:")
          /\ UNCHANGED agents
  /\ UNCHANGED <<challenges, log, now, serial, txt, cpvars, cavars>>

NewChallengeRow(r) ==
  [agentId |-> local[r].agentId, token |-> local[r].token,
   expiresAt |-> local[r].expiresAt, used |-> 0]

\* INSERT INTO validation_challenges executes; the handler answers 202.
RegisterInsertChallenge(r) ==
  /\ pc[r] = "reg_insert_challenge"
  /\ challenges' = Append(challenges, NewChallengeRow(r))
  /\ Respond(r, [status |-> 202,
                 agentId |-> local[r].agentId,
                 ansName |-> local[r].ansName,
                 agentStatus |-> "PENDING_VALIDATION",
                 dnsRecord |-> <<ChallengeRecordName(body[r].agentHost),
                                 local[r].token>>,
                 expiresAt |-> local[r].expiresAt])
  /\ UNCHANGED <<agents, log, now, serial, txt, cpvars, cavars>>

\* db.run rejects for a reason of the engine's (SQLITE_BUSY, SQLITE_FULL,
\* SQLITE_IOERR): the statement has no effect and the catch block answers 500.
RegisterRunRejected(r) ==
  /\ pc[r] \in {"reg_insert_agent", "reg_insert_challenge"}
  /\ Catch(r, "Registration error:")
  /\ UNCHANGED <<store, now, serial, txt, cpvars, cavars>>

\* ------------------------------------ POST /v1/agents/:agentId/verify-dns

\* routes.ts:98  the DNS TXT lookup is not made: the check is the constant true.
dnsValidated == TRUE

\* Variant: the query leaves out the expiry condition.
SelectValidChallengeIgnoringExpiry(agentId, at) ==
  FirstRow({k \in 1 .. Len(challenges) :
              /\ challenges[k].agentId = agentId
              /\ challenges[k].used = 0})

\* SELECT * FROM validation_challenges
\*   WHERE agentId = ? AND used = 0 AND expiresAt > ?     (0: no row)
SelectValidChallenge(agentId, at) ==
  FirstRow({k \in 1 .. Len(challenges) :
              /\ challenges[k].agentId = agentId
              /\ challenges[k].used = 0
              /\ challenges[k].expiresAt > at})

\* The handler runs to its first await and the agent query returns: 404 for
\* no row, 400 unless PENDING_VALIDATION, else the challenge query is awaited
\* with the current time as its parameter.
VerifyGetAgent(r, agentId) ==
  /\ FreeSlot(r)
  /\ LET agent == SelectAgentById(agentId)
     IN IF agent = NoRow
        THEN Respond(r, [status |-> 404, error |-> "Agent not found"])
        ELSE IF agent.status # "PENDING_VALIDATION"
        THEN Respond(r, [status |-> 400, error |-> "Agent already validated"])
        ELSE /\ pc' = [pc EXCEPT ![r] = "ver_get_challenge"]
             /\ body' = [body EXCEPT ![r] = [agentId |-> agentId]]
             /\ local' = [local EXCEPT ![r] = [agent |-> agent, at |-> now]]
             /\ UNCHANGED res
  /\ UNCHANGED <<store, now, serial, txt, cpvars, cavars>>

\* The challenge query returns: 400 for no row; else (the DNS check being
\* skipped) issueIdentityCertificate starts openssl and is awaited.
VerifyGetChallenge(r) ==
  /\ pc[r] = "ver_get_challenge"
  /\ LET c == SelectValidChallenge(body[r].agentId, local[r].at)
     IN IF c = 0
        THEN Respond(r, [status |-> 400, error |-> "No valid challenge found"])
        ELSE IF ~dnsValidated
        THEN Respond(r, [status |-> 400, error |-> "DNS validation failed"])
        ELSE /\ pc' = [pc EXCEPT ![r] = "ver_issue"]
             /\ local' = [local EXCEPT ![r] =
                            [agent |-> local[r].agent, challenge |-> c]]
             /\ UNCHANGED <<body, res>>
  /\ UNCHANGED <<store, now, serial, txt, cpvars, cavars>>

\* ca.ts:54-73  openssl x509 -req signs the CSR for the host with the next
\* serial; the certificate file is read back.
SignedCertificate(csrPem, agentHost) ==
  [csr |-> csrPem, san |-> agentHost, serial |-> serial]

\* openssl exits 0 and issueIdentityCertificate returns the certificate; the
\* handler awaits UPDATE agents, its updatedAt parameter being the time now.
VerifyIssued(r) ==
  /\ pc[r] = "ver_issue"
  /\ local' = [local EXCEPT ![r] =
                 [agent |-> local[r].agent, challenge |-> local[r].challenge,
                  identityCertPEM |->
                    SignedCertificate(local[r].agent.identityCsrPEM,
                                      local[r].agent.agentHost),
                  updatedAt |-> now]]
  /\ serial' = serial + 1
  /\ pc' = [pc EXCEPT ![r] = "ver_update_agent"]
  /\ UNCHANGED <<store, now, txt, cpvars, cavars, body, res>>

\* Variant: the agent is marked ACTIVE before the certificate is issued.
VerifyIssueFailedAfterActivation(r) ==
  /\ pc[r] = "ver_issue"
  /\ Catch(r, "Verification error:")
  /\ agents' = [i \in 1 .. Len(agents) |->
                  IF agents[i].agentId = body[r].agentId
                  THEN [agents[i] EXCEPT !.status = "ACTIVE"]
                  ELSE agents[i]]
  /\ UNCHANGED <<challenges, log, now, serial, txt, cpvars, cavars>>

\* openssl exits non-zero (the CSR does not parse, the root key cannot be
\* read): execAsync rejects and the handler's catch block answers 500.
VerifyIssueFailed(r) ==
  /\ pc[r] = "ver_issue"
  /\ Catch(r, "Verification error:")
  /\ UNCHANGED <<store, now, serial, txt, cpvars, cavars>>

\* Variant: the status is written without the certificate.
UpdateAgentStatusOnly(tbl, agentId, status, identityCertPEM, updatedAt) ==
  [i \in 1 .. Len(tbl) |->
     IF tbl[i].agentId = agentId
     THEN [tbl[i] EXCEPT !.status = status, !.updatedAt = updatedAt]
     ELSE tbl[i]]

\* Variant: the UPDATE has no WHERE clause.
UpdateAgentNoWhere(tbl, agentId, status, identityCertPEM, updatedAt) ==
  [i \in 1 .. Len(tbl) |->
     [tbl[i] EXCEPT !.status = status,
                    !.identityCertPEM = identityCertPEM,
                    !.updatedAt = updatedAt]]

\* UPDATE agents SET status = ?, identityCertPEM = ?, updatedAt = ?
\*   WHERE agentId = ?
UpdateAgent(tbl, agentId, status, identityCertPEM, updatedAt) ==
  [i \in 1 .. Len(tbl) |->
     IF tbl[i].agentId = agentId
     THEN [tbl[i] EXCEPT !.status = status,
                         !.identityCertPEM = identityCertPEM,
                         !.updatedAt = updatedAt]
     ELSE tbl[i]]

\* UPDATE agents executes; UPDATE validation_challenges is awaited.
VerifyUpdateAgent(r) ==
  /\ pc[r] = "ver_update_agent"
  /\ agents' = UpdateAgent(agents, body[r].agentId, "ACTIVE",
                           local[r].identityCertPEM, local[r].updatedAt)
  /\ pc' = [pc EXCEPT ![r] = "ver_update_challenge"]
  /\ UNCHANGED <<challenges, log, now, serial, txt, cpvars, cavars, body, local, res>>

\* UPDATE validation_challenges SET used = 1 WHERE id = ?
MarkUsed(tbl, id) ==
  [i \in 1 .. Len(tbl) |-> IF i = id THEN [tbl[i] EXCEPT !.used = 1] ELSE tbl[i]]

\* UPDATE validation_challenges executes; the log entry's hash is drawn at
\* random and INSERT INTO transparency_log is awaited.
VerifyUpdateChallenge(r) ==
  /\ pc[r] = "ver_update_challenge"
  /\ challenges' = MarkUsed(challenges, local[r].challenge)
  /\ \E h \in HashValues :
       local' = [local EXCEPT ![r] =
                   [agent |-> local[r].agent,
                    identityCertPEM |-> local[r].identityCertPEM,
                    merkleHash |-> h]]
  /\ pc' = [pc EXCEPT ![r] = "ver_insert_log"]
  /\ UNCHANGED <<agents, log, now, serial, txt, cpvars, cavars, body, res>>

NewLogRow(r) ==
  [eventType |-> "AGENT_REGISTERED",
   agentId |-> body[r].agentId,
   ansName |-> local[r].agent.ansName,
   data |-> local[r].agent.agentDisplayName,
   merkleHash |-> local[r].merkleHash]

\* INSERT INTO transparency_log executes; the handler answers 200 (the
\* response also carries the root certificate, which never changes).
VerifyInsertLog(r) ==
  /\ pc[r] = "ver_insert_log"
  /\ log' = Append(log, NewLogRow(r))
  /\ Respond(r, [status |-> 200,
                 agentId |-> body[r].agentId,
                 ansName |-> local[r].agent.ansName,
                 agentStatus |-> "ACTIVE",
                 identityCert |-> local[r].identityCertPEM])
  /\ UNCHANGED <<agents, challenges, now, serial, txt, cpvars, cavars>>

\* db.run rejects for a reason of the engine's: the statement has no effect
\* and the catch block answers 500.
VerifyRunRejected(r) ==
  /\ pc[r] \in {"ver_update_agent", "ver_update_challenge", "ver_insert_log"}
  /\ Catch(r, "Verification error:")
  /\ UNCHANGED <<store, now, serial, txt, cpvars, cavars>>

\* ------------------------------------------------ GET /v1/log/checkpoint

\* Variant: the count is taken over the ACTIVE agents, not over the entries.
CountActiveAgents ==
  Cardinality({i \in 1 .. Len(agents) : agents[i].status = "ACTIVE"})

\* SELECT COUNT(*) as treeSize FROM transparency_log
CountLog == Len(log)

\* SELECT merkleHash, timestamp FROM transparency_log ORDER BY id DESC LIMIT 1
LastEntry == IF Len(log) = 0 THEN NoRow ELSE log[Len(log)]

\* The handler runs to its first await and the count query returns; the
\* last-entry query is awaited.  One checkpoint is followed at a time.
CheckpointCount ==
  /\ cpPc = "idle"
  /\ cpLocal' = [result |-> [treeSize |-> CountLog]]
  /\ cpPc' = "cp_get_last"
  /\ UNCHANGED <<store, now, serial, txt, pc, body, local, res, cpRes, cavars>>

\* The last-entry query returns; the handler answers (200) with
\* result?.treeSize || 0 and lastEntry?.merkleHash || '0'.repeat(64).  The
\* response's timestamp is that of the entry and is not modelled.
CheckpointLast ==
  /\ cpPc = "cp_get_last"
  /\ LET lastEntry == LastEntry
     IN cpRes' = [status |-> 200,
                  treeSize |-> cpLocal.result.treeSize,
                  rootHash |-> IF lastEntry = NoRow THEN GenesisHash
                               ELSE lastEntry.merkleHash]
  /\ cpPc' = "idle"
  /\ cpLocal' = NoLocal
  /\ UNCHANGED <<store, now, serial, txt, pc, body, local, res, cavars>>

\* ------------------------------------------------------------------ ca.ts
\* Spec takes a call of issueIdentityCertificate as one awaited step with
\* two outcomes (VerifyIssued, VerifyIssueFailed).  What follows is ca.ts
\* itself: initCA as index.ts start() invokes it, once per process started
\* on the data directory, and issueIdentityCertificate as the verify-dns
\* handlers call it, with the arguments of the agent being verified.

\* openssl req -newkey rsa:4096: a fresh key pair per run; invocation p's
\* run yields p.
NewRootKey(p) == p

\* ca.ts:20  !fs.existsSync(CA_KEY) || !fs.existsSync(CA_CERT)
RootCAMissing == ca.key = 0 \/ ca.cert = 0

\* initCA runs to its await: openssl req is started if the key or the
\* certificate is missing, else initCA returns.
InitCAStart(p) ==
  /\ initPc[p] = "idle"
  /\ \A q \in 1 .. (p - 1) : initPc[q] # "idle"
  /\ initPc' = [initPc EXCEPT ![p] = IF RootCAMissing THEN "init_exec"
                                     ELSE "done"]
  /\ UNCHANGED <<store, now, serial, txt, pc, body, local, res, cpvars,
                 ca, tmp, caPc, caLocal, caRet>>

\* openssl req -x509 -newkey ... -keyout CA_KEY -out CA_CERT exits: it has
\* written a new key and its self-signed certificate over whatever the two
\* paths held; initCA returns.
InitCAGenerated(p) ==
  /\ initPc[p] = "init_exec"
  /\ ca' = [key |-> NewRootKey(p), cert |-> NewRootKey(p)]
  /\ initPc' = [initPc EXCEPT ![p] = "done"]
  /\ UNCHANGED <<store, now, serial, txt, pc, body, local, res, cpvars,
                 tmp, caPc, caLocal, caRet>>

\* identityCsrPEM is any non-empty string a registrant sent (routes.ts:15
\* checks no more): two agents' requests, and one that is no CSR.
CsrPems == {"csrA", "csrB", "garbage"}
SignHosts == {"a", "b"}

\* openssl x509 -req -in: whether the file's content parses as a request.
ParsesAsCsr(pem) == pem # "garbage"

\* ca.ts:47-48  path.join(tmpDir, `${Date.now()}.csr`): the name is the
\* clock's reading in milliseconds and the extension.  In SpecCA one unit
\* of the clock is one millisecond.
TmpName(t, ext) == ToString(t) \o ext

\* fs.existsSync, fs.readFileSync, fs.writeFileSync, fs.unlinkSync on tmp.
Exists(name) == \E f \in tmp : f.name = name
Read(name) == (CHOOSE f \in tmp : f.name = name).data
Write(dir, name, data) ==
  {f \in dir : f.name # name} \cup {[name |-> name, data |-> data]}
Unlink(dir, name) == {f \in dir : f.name # name}

\* The server listens once start() has awaited initCA (index.ts:48-51).
Listening == \E p \in Inits : initPc[p] = "done"

\* issueIdentityCertificate runs to its await: both paths are named after
\* the clock, the CSR is written to csrPath and openssl x509 is started.
IssueStart(c, csrPem, agentHost) ==
  /\ Listening
  /\ caPc[c] = "idle"
  /\ \A d \in 1 .. (c - 1) : caPc[d] # "idle"
  /\ LET csrPath == TmpName(now, ".csr")
         certPath == TmpName(now, ".crt")
     IN /\ tmp' = Write(tmp, csrPath, [pem |-> csrPem])
        /\ caLocal' = [caLocal EXCEPT ![c] =
                         [csrPem |-> csrPem, agentHost |-> agentHost,
                          csrPath |-> csrPath, certPath |-> certPath]]
  /\ caPc' = [caPc EXCEPT ![c] = "x509_exec"]
  /\ UNCHANGED <<store, now, serial, txt, pc, body, local, res, cpvars,
                 ca, initPc, caRet>>

\* The openssl x509 child runs and exits.  It reads the file at csrPath and
\* the root key, takes the next serial and writes the certificate to
\* certPath; if the file is missing or is no CSR, or the root key or
\* certificate is missing, it exits non-zero, execAsync rejects and the call
\* throws with nothing removed.
OpensslX509(c) ==
  /\ caPc[c] = "x509_exec"
  /\ LET l == caLocal[c]
     IN IF Exists(l.csrPath) /\ ParsesAsCsr(Read(l.csrPath).pem)
           /\ ~RootCAMissing
        THEN /\ tmp' = Write(tmp, l.certPath,
                             SignedCertificate(Read(l.csrPath).pem,
                                               l.agentHost))
             /\ serial' = serial + 1
             /\ caPc' = [caPc EXCEPT ![c] = "x509_exited"]
             /\ UNCHANGED caRet
        ELSE /\ caPc' = [caPc EXCEPT ![c] = "thrown"]
             /\ caRet' = [caRet EXCEPT ![c] = [kind |-> "thrown"]]
             /\ UNCHANGED <<tmp, serial>>
  /\ UNCHANGED <<store, now, txt, pc, body, local, res, cpvars,
                 ca, initPc, caLocal>>

\* The call resumes after the child's exit: readFileSync(certPath),
\* unlinkSync(csrPath), unlinkSync(certPath), return.  A missing file makes
\* the statement that names it throw (ENOENT) and the rest is skipped.
IssueResume(c) ==
  /\ caPc[c] = "x509_exited"
  /\ LET l == caLocal[c]
     IN IF ~Exists(l.certPath)
        THEN /\ caPc' = [caPc EXCEPT ![c] = "thrown"]
             /\ caRet' = [caRet EXCEPT ![c] = [kind |-> "thrown"]]
             /\ UNCHANGED tmp
        ELSE IF ~Exists(l.csrPath)
        THEN /\ caPc' = [caPc EXCEPT ![c] = "thrown"]
             /\ caRet' = [caRet EXCEPT ![c] = [kind |-> "thrown"]]
             /\ UNCHANGED tmp
        ELSE /\ caPc' = [caPc EXCEPT ![c] = "returned"]
             /\ caRet' = [caRet EXCEPT ![c] =
                            [kind |-> "returned", certPem |-> Read(l.certPath)]]
             /\ tmp' = Unlink(Unlink(tmp, l.csrPath), l.certPath)
  /\ UNCHANGED <<store, now, serial, txt, pc, body, local, res, cpvars,
                 ca, initPc, caLocal>>

\* ------------------------------------------------------------ environment

\* The registrant publishes the TXT record a 202 response told it to.
PublishTxt(r) ==
  /\ res[r].status = 202
  /\ res[r].dnsRecord \notin txt
  /\ txt' = txt \cup {res[r].dnsRecord}
  /\ UNCHANGED <<store, now, serial, cpvars, cavars, pc, body, local, res>>

\* Time passes.
Tick ==
  /\ now < MaxTime
  /\ now' = now + 1
  /\ UNCHANGED <<store, serial, txt, cpvars, cavars, pc, body, local, res>>

Next ==
  \/ \E r \in Reqs, b \in RegisterBodies : RegisterGetExisting(r, b)
  \/ \E r \in Reqs : RegisterInsertAgent(r)
  \/ \E r \in Reqs : RegisterInsertChallenge(r)
  \/ \E r \in Reqs : RegisterRunRejected(r)
  \/ \E r \in Reqs, id \in AgentIds : VerifyGetAgent(r, id)
  \/ \E r \in Reqs : VerifyGetChallenge(r)
  \/ \E r \in Reqs : VerifyIssued(r)
  \/ \E r \in Reqs : VerifyIssueFailed(r)
  \/ \E r \in Reqs : VerifyUpdateAgent(r)
  \/ \E r \in Reqs : VerifyUpdateChallenge(r)
  \/ \E r \in Reqs : VerifyInsertLog(r)
  \/ \E r \in Reqs : VerifyRunRejected(r)
  \/ Tick

\* The registry: its handlers and the clock.
Spec == Init /\ [][Next]_vars

NextDns ==
  \/ Next
  \/ \E r \in Reqs : PublishTxt(r)

\* The registry together with the registrants' DNS zones.
SpecDns == Init /\ [][NextDns]_vars

NextLog ==
  \/ Next /\ \A r \in Reqs : (r > MaxLogReqs) => (pc'[r] = "idle")
  \/ CheckpointCount
  \/ CheckpointLast

\* The registry serving MaxLogReqs requests, together with a client
\* polling the log's checkpoint.
SpecLog == Init /\ [][NextLog]_vars

NextCA ==
  \/ \E p \in Inits : InitCAStart(p)
  \/ \E p \in Inits : InitCAGenerated(p)
  \/ \E c \in Calls, csrPem \in CsrPems, agentHost \in SignHosts :
       IssueStart(c, csrPem, agentHost)
  \/ \E c \in Calls : OpensslX509(c)
  \/ \E c \in Calls : IssueResume(c)
  \/ Tick

\* The certificate authority, its callers and the clock.
SpecCA == Init /\ [][NextCA]_vars

\* ================================================================ claims

AgentRows == 1 .. Len(agents)
ChallengeRows == 1 .. Len(challenges)
LogRows == 1 .. Len(log)

\* C1: in every reachable state every agent has identityCertPEM set if and
\* only if its status is ACTIVE, the intermediate states of an in-flight
\* verification included.
C1_CertIffActive ==
  \A i \in AgentRows :
    (agents[i].identityCertPEM # NullPEM) <=> (agents[i].status = "ACTIVE")

\* An agent is ACTIVE with its certificate while the verification that
\* activated it has not yet marked the challenge, and another agent is
\* still PENDING_VALIDATION.
C1_Witness ==
  /\ \E r \in Reqs, i \in AgentRows :
       /\ pc[r] = "ver_update_challenge"
       /\ agents[i].agentId = body[r].agentId
       /\ agents[i].status = "ACTIVE"
       /\ agents[i].identityCertPEM = local[r].identityCertPEM
  /\ \E i \in AgentRows : agents[i].status = "PENDING_VALIDATION"

HasUsedChallenge(agentId) ==
  \E j \in ChallengeRows :
    challenges[j].agentId = agentId /\ challenges[j].used = 1

HasLogEntry(agentId) == \E n \in LogRows : log[n].agentId = agentId

\* C2: the four effects of a verification are one atomic step: in every
\* reachable state an agent is ACTIVE if and only if its challenge is marked
\* used and if and only if the log holds an entry for it.
C2_FourEffectsAtomic ==
  \A i \in AgentRows :
    /\ (agents[i].status = "ACTIVE") <=> HasUsedChallenge(agents[i].agentId)
    /\ (agents[i].status = "ACTIVE") <=> HasLogEntry(agents[i].agentId)

NameTaken(n) == \E i \in AgentRows : agents[i].ansName = n

\* C3: a Register whose computed ansName belongs to an existing agent is
\* answered 409 and leaves agents, challenges and log as they were.
C3_ConflictLeavesStore ==
  [][\A r \in Reqs :
       (pc[r] = "idle" /\ pc'[r] # "idle")
       => \A b \in RegisterBodies :
            (/\ ~MissingRequired(b)
             /\ NameTaken(AnsName(b.version, b.agentHost))
             /\ RegisterGetExisting(r, b))
            => (/\ res'[r].status = 409
                /\ pc'[r] = "done"
                /\ store' = store)]_vars

\* A Register was answered 409 for the name of a stored agent.
C3_Witness ==
  \E r \in Reqs :
    res[r].status = 409 /\ NameTaken(res[r].ansName) /\ Len(challenges) > 0

\* C4: of two Registers for one ansName that both passed the existence
\* check, the one whose INSERT finds the name taken is answered 409.
C4_RaceLoserGetsConflict ==
  [][\A r \in Reqs :
       (RegisterInsertAgent(r) /\ NameTaken(local[r].ansName))
       => res'[r].status = 409]_vars

\* C5: in every reachable state every agent in the store has a challenge
\* linked to its agentId.
C5_AgentHasChallenge ==
  \A i \in AgentRows :
    \E j \in ChallengeRows : challenges[j].agentId = agents[i].agentId

\* The chain function the log's design prescribes: the hash of an entry is
\* a function of the previous entry's hash and this entry's content.
ContentDigest(row) ==
  row.agentId + Len(row.eventType) + Len(row.ansName) + Len(row.data)

ChainHash(prev, row) == (2 * prev + ContentDigest(row) + 1) % (MaxHash + 1)

\* C6: in every reachable state the stored hash of every log entry is the
\* chain function of its predecessor's stored hash (the all-zero genesis
\* value for the first entry) and its own content.
C6_HashChainIntegrity ==
  \A n \in LogRows :
    log[n].merkleHash =
      ChainHash(IF n = 1 THEN GenesisHash ELSE log[n - 1].merkleHash, log[n])

\* C7: for one agent at most one verification is answered 200, at most one
\* certificate is issued and at most one log entry is appended.
C7_ValidatesAtMostOnce ==
  \A id \in AgentIds :
    /\ Cardinality({r \in Reqs : res[r].status = 200 /\ res[r].agentId = id}) <= 1
    /\ Cardinality({n \in LogRows : log[n].agentId = id}) <= 1

\* C8: an agent is ACTIVE only if the TXT record _ans-challenge.{agentHost}
\* holds the token of its challenge (a published record stays published).
C8_ActiveOnlyAfterDns ==
  \A i \in AgentRows :
    agents[i].status = "ACTIVE"
    => \E j \in ChallengeRows :
         /\ challenges[j].agentId = agents[i].agentId
         /\ <<ChallengeRecordName(agents[i].agentHost), challenges[j].token>> \in txt

\* C9: an expired challenge never validates: an agent is activated (its
\* updatedAt is the time its certificate was issued) strictly before the
\* expiresAt of a challenge of its own.
C9_ExpiredNeverValidates ==
  \A i \in AgentRows :
    agents[i].status = "ACTIVE"
    => \E j \in ChallengeRows :
         /\ challenges[j].agentId = agents[i].agentId
         /\ agents[i].updatedAt < challenges[j].expiresAt

\* C10: PENDING_VALIDATION -> ACTIVE is taken only by a successful
\* VerifyAndIssue for that agentId and by no failed one: every ACTIVE agent
\* has a verification answered 200, or one still on its way to that answer.
C10_ActiveOnlyBySuccessfulVerify ==
  \A i \in AgentRows :
    agents[i].status = "ACTIVE"
    => \E r \in Reqs :
         \/ res[r].status = 200 /\ res[r].agentId = agents[i].agentId
         \/ /\ pc[r] \in {"ver_update_challenge", "ver_insert_log"}
            /\ body[r].agentId = agents[i].agentId

C18_CheckpointConsistentSnapshot ==
  (cpRes.status = 200)
  => cpRes.rootHash = IF cpRes.treeSize = 0 THEN GenesisHash
                      ELSE log[cpRes.treeSize].merkleHash

HasValidChallenge(agentId, at) ==
  \E j \in ChallengeRows :
    /\ challenges[j].agentId = agentId
    /\ challenges[j].used = 0
    /\ challenges[j].expiresAt > at

Rejected(r, status, error) ==
  /\ pc'[r] = "done"
  /\ res'[r].status = status
  /\ res'[r].error = error
  /\ store' = store
  /\ serial' = serial

\* C12: a verify-dns request is answered 404 when no agent has the agentId,
\* 400 when the agent is not PENDING_VALIDATION and 400 when the agent has
\* no challenge with used = 0 and expiresAt later than the time the handler
\* read; the step that rejects it leaves agents, challenges and log as they
\* were and issues no certificate.
C12_RejectedVerifyLeavesStore ==
  [][\A r \in Reqs :
       /\ (pc[r] = "idle" /\ pc'[r] \notin {"idle", "reg_insert_agent"})
          => \A id \in AgentIds :
               \/ \E i \in AgentRows :
                    /\ agents[i].agentId = id
                    /\ agents[i].status = "PENDING_VALIDATION"
               \/ IF \E i \in AgentRows : agents[i].agentId = id
                  THEN Rejected(r, 400, "Agent already validated")
                  ELSE Rejected(r, 404, "Agent not found")
               \/ ~VerifyGetAgent(r, id)
       /\ (/\ pc[r] = "ver_get_challenge"
           /\ pc'[r] # "ver_get_challenge"
           /\ ~HasValidChallenge(body[r].agentId, local[r].at))
          => Rejected(r, 400, "No valid challenge found")]_vars

\* One verification was answered 404 and another, for a stored agent whose
\* challenge has expired, 400; the agent is still PENDING_VALIDATION, its
\* challenge unused, the log empty and no certificate issued.
C12_Witness ==
  /\ \E r \in Reqs : res[r].status = 404
  /\ \E r \in Reqs :
       res[r].status = 400 /\ res[r].error = "No valid challenge found"
  /\ Len(agents) = 1
  /\ agents[1].status = "PENDING_VALIDATION"
  /\ HasValidChallenge(agents[1].agentId, 0)
  /\ log = <<>>
  /\ serial = 1

\* C13: when issueIdentityCertificate fails, the request is answered 500, no
\* certificate is issued and the failing step leaves the store as it was: an
\* agent that was PENDING_VALIDATION stays so without identityCertPEM, the
\* challenge the request had selected stays as it was (unused, same expiry),
\* and the log gets no entry.
C13_IssuanceFailureLeavesStore ==
  [][\A r \in Reqs :
       (pc[r] = "ver_issue" /\ pc'[r] = "done")
       => /\ res'[r].status = 500
          /\ store' = store
          /\ serial' = serial
          /\ \A i \in AgentRows :
               (/\ agents[i].agentId = body[r].agentId
                /\ agents[i].status = "PENDING_VALIDATION")
               => /\ agents'[i].status = "PENDING_VALIDATION"
                  /\ agents'[i].identityCertPEM = NullPEM
          /\ challenges'[local[r].challenge] = challenges[local[r].challenge]
          /\ Len(log') = Len(log)]_vars

\* A verification failed at certificate issuance (no certificate was ever
\* issued, yet a verify-dns handler answered 500); the agent is still
\* PENDING_VALIDATION without a certificate, the log is empty, and a later
\* verification of the agent has passed the challenge check again.
C13_Witness ==
  /\ \E r \in Reqs :
       res[r].status = 500 /\ res[r].logged = "Verification error:"
  /\ serial = 1
  /\ log = <<>>
  /\ Len(agents) = 1
  /\ agents[1].status = "PENDING_VALIDATION"
  /\ agents[1].identityCertPEM = NullPEM
  /\ \E s \in Reqs :
       /\ pc[s] = "ver_issue"
       /\ body[s].agentId = agents[1].agentId
       /\ challenges[local[s].challenge].used = 0

\* The columns of an agent that Register fixes.
IntakeFields(row) ==
  <<row.agentId, row.ansName, row.agentDisplayName, row.version,
    row.agentHost, row.identityCsrPEM>>

\* C19: no step removes an agent or changes its agentId, ansName, version,
\* agentHost or identityCsrPEM; a step that changes a stored agent is the
\* UPDATE of a verification, it changes only agents with the agentId the
\* verification targets, and of those only status, identityCertPEM and
\* updatedAt.
C19_IntakeFieldsFixed ==
  [][(agents' # agents)
     => /\ Len(agents') >= Len(agents)
        /\ \A i \in AgentRows :
             IntakeFields(agents'[i]) = IntakeFields(agents[i])
        /\ \A i \in AgentRows :
             (agents'[i] # agents[i])
             => \E r \in Reqs :
                  /\ pc[r] = "ver_update_agent"
                  /\ pc'[r] = "ver_update_challenge"
                  /\ agents[i].agentId = body[r].agentId
                  /\ \A j \in AgentRows :
                       (agents[j].agentId # body[r].agentId)
                       => (agents'[j] = agents[j])]_vars

\* Two agents are stored; a verification answered 200 has made the first
\* ACTIVE with its certificate and the second is as Register stored it.
C19_Witness ==
  /\ Len(agents) = 2
  /\ agents[1].status = "ACTIVE"
  /\ agents[1].identityCertPEM # NullPEM
  /\ agents[2].status = "PENDING_VALIDATION"
  /\ agents[2].identityCertPEM = NullPEM
  /\ \E r \in Reqs : res[r].status = 200 /\ res[r].agentId = agents[1].agentId

ChallengesOf(tbl, agentId) == {j \in 1 .. Len(tbl) : tbl[j].agentId = agentId}

\* The agent has a challenge and every challenge of it has expired.
ChallengeExpired(agentId) ==
  /\ ChallengesOf(challenges, agentId) # {}
  /\ \A j \in ChallengesOf(challenges, agentId) : challenges[j].expiresAt <= now

\* The facts about challenges C20 rests on: a challenge is inserted only by
\* the last statement of a Register answered 202, that agent then has
\* exactly one, and no step removes a challenge or changes its agentId,
\* token or expiresAt.
ChallengesFixed ==
  /\ Len(challenges') >= Len(challenges)
  /\ \A j \in ChallengeRows :
       /\ challenges'[j].agentId = challenges[j].agentId
       /\ challenges'[j].token = challenges[j].token
       /\ challenges'[j].expiresAt = challenges[j].expiresAt
  /\ (Len(challenges') # Len(challenges))
     => \E r \in Reqs :
          /\ pc[r] = "reg_insert_challenge"
          /\ res'[r].status = 202
          /\ ChallengesOf(challenges, res'[r].agentId) = {}
          /\ ChallengesOf(challenges', res'[r].agentId) = {Len(challenges')}

\* A Register started for the ansName of a stored agent is answered 409.
NameHeld ==
  \A r \in Reqs :
    (pc[r] = "idle" /\ pc'[r] # "idle")
    => \A b \in RegisterBodies :
         (/\ ~MissingRequired(b)
          /\ NameTaken(AnsName(b.version, b.agentHost))
          /\ RegisterGetExisting(r, b))
         => res'[r].status = 409

\* C20: challenges are created only by Register, one per registered agent,
\* and never change; an agent that is PENDING_VALIDATION when its challenge
\* has expired is PENDING_VALIDATION in every later state, and a later
\* Register for its ansName is answered 409.
C20_ExpiredStaysPending ==
  [][/\ ChallengesFixed
     /\ NameHeld
     /\ \A i \in AgentRows :
          (/\ agents[i].status = "PENDING_VALIDATION"
           /\ ChallengeExpired(agents[i].agentId))
          => (agents'[i].status = "PENDING_VALIDATION")]_vars

\* A call of issueIdentityCertificate between its start and its return or
\* throw; its openssl child is running while the call is at "x509_exec".
InFlight(c) == caPc[c] \in {"x509_exec", "x509_exited"}

\* C14: at most one signing with the root key is in progress at any time.
C14_SigningSerialized ==
  Cardinality({c \in Calls : caPc[c] = "x509_exec"}) <= 1

\* C15: when no call of issueIdentityCertificate is in flight, every call
\* having returned or thrown, the directory tmp holds no file.
C15_TempFilesRemoved ==
  (\A c \in Calls : ~InFlight(c)) => (tmp = {})

\* C16: once a root key exists, no step generates another or changes the
\* key or the certificate.
C16_RootCAGeneratedOnce ==
  [][(ca.key # 0) => (ca' = ca)]_vars

\* C17: two calls in flight at the same time never share a .csr or a .crt
\* path, and the certificate a call returns is signed from the CSR that
\* call was given.
C17_TempNamesRequestScoped ==
  /\ \A c, d \in Calls :
       (c # d /\ InFlight(c) /\ InFlight(d))
       => /\ caLocal[c].csrPath # caLocal[d].csrPath
          /\ caLocal[c].certPath # caLocal[d].certPath
  /\ \A c \in Calls :
       (caPc[c] = "returned") => (caRet[c].certPem.csr = caLocal[c].csrPem)
====
